---------------------------- MODULE Spec2Model ----------------------------
(***************************************************************************)
(* A model of the hybrid search index of gocom-fuzzy-search:               *)
(*   searchindex/index.go   Index.Rebuild, Index.Search, cosine,           *)
(*                          jaroWinkler, max3                              *)
(*   nlp/rewriter.go        normalize, RewriteQuery                        *)
(*   cmd/server/main.go     the /search handler (merge by best score)      *)
(*                                                                         *)
(* Strings are sequences of one-character strings, so that TrimSpace and   *)
(* ToLower are computed and not assumed.  float64 values are fixed-point   *)
(* integers in units of 1/Scale; the two weights are in hundredths, so a   *)
(* combined score is in units of 1/(100*Scale).                            *)
(***************************************************************************)
EXTENDS Integers, Sequences, FiniteSets

(***************************************************************************)
(* Bounds of the model.                                                    *)
(***************************************************************************)
\* the longest product list handed to Rebuild
MaxInput == 2
\* the largest topK a request asks for (the smallest is -1)
MaxTopK == 1

(***************************************************************************)
(* Numbers.                                                                *)
(***************************************************************************)
\* one unit of a float64 sub-score: 1.0 is Scale
Scale == 3600
\* SEMANTIC_WEIGHT default 0.70, in hundredths
semanticWeight == 70
\* FUZZY_WEIGHT default 0.30, in hundredths
fuzzyWeight == 30
\* smetrics.JaroWinkler(a, b, 0.7, 4): the prefix size
prefixSize == 4
\* normalize keeps at most 3 alternatives
MaxAlternatives == 3

Min(a, b) == IF a <= b THEN a ELSE b
Max(a, b) == IF a >= b THEN a ELSE b

\* math.Sqrt on a non-negative integer, rounded down
RECURSIVE SqrtBetween(_, _, _)
SqrtBetween(n, lo, hi) ==
    IF lo >= hi THEN lo
    ELSE LET mid == (lo + hi + 1) \div 2
         IN  IF mid * mid <= n THEN SqrtBetween(n, mid, hi)
             ELSE SqrtBetween(n, lo, mid - 1)
Sqrt(n) == SqrtBetween(n, 0, Min(n, 46340))

(***************************************************************************)
(* Strings.                                                                *)
(***************************************************************************)
IsSpace(c) == c = " "

\* a variant: no trimming at all
NoTrim(s) == s

\* strings.TrimSpace
RECURSIVE TrimLeft(_)
TrimLeft(s) == IF s # <<>> /\ IsSpace(Head(s)) THEN TrimLeft(Tail(s)) ELSE s
RECURSIVE TrimRight(_)
TrimRight(s) ==
    IF s # <<>> /\ IsSpace(s[Len(s)]) THEN TrimRight(SubSeq(s, 1, Len(s) - 1)) ELSE s
TrimSpace(s) == TrimRight(TrimLeft(s))

\* strings.ToLower
UpperCase ==
    << "A", "B", "C", "D", "E", "F", "G", "H", "I", "J", "K", "L", "M",
       "N", "O", "P", "Q", "R", "S", "T", "U", "V", "W", "X", "Y", "Z" >>
LowerCase ==
    << "a", "b", "c", "d", "e", "f", "g", "h", "i", "j", "k", "l", "m",
       "n", "o", "p", "q", "r", "s", "t", "u", "v", "w", "x", "y", "z" >>
LowerChar(c) ==
    IF \E i \in 1..Len(UpperCase) : UpperCase[i] = c
    THEN LowerCase[CHOOSE i \in 1..Len(UpperCase) : UpperCase[i] = c]
    ELSE c
ToLower(s) == [i \in 1..Len(s) |-> LowerChar(s[i])]

\* strings.Join([]string{p.Title, p.Brand, p.Description}, " "), trimmed
SearchText(p) == TrimSpace(p.Title \o <<" ">> \o p.Brand \o <<" ">> \o p.Description)

(***************************************************************************)
(* cosine(a, b): vectors are sequences of integers.  The quotient          *)
(* dot / (sqrt(na) * sqrt(nb)) is computed in units of 1/Scale.            *)
(***************************************************************************)
RECURSIVE Dot(_, _)
Dot(a, b) == IF a = <<>> THEN 0 ELSE Head(a) * Head(b) + Dot(Tail(a), Tail(b))

Quot(n, d) == IF n >= 0 THEN n \div d ELSE -((-n) \div d)

\* a variant: the dot product is not divided by the magnitudes
cosineUnnormalized(a, b) ==
    IF Len(a) = 0 \/ Len(b) = 0 \/ Len(a) # Len(b) THEN 0
    ELSE IF Dot(a, a) * Dot(b, b) = 0 THEN 0 ELSE Dot(a, b) * Scale

\* a variant: vectors of different lengths are compared on their common prefix
cosineCommonPrefix(a, b) ==
    LET n  == Min(Len(a), Len(b))
        a1 == SubSeq(a, 1, n)
        b1 == SubSeq(b, 1, n)
    IN  IF n = 0 THEN 0
        ELSE LET den == Sqrt(Dot(a1, a1) * Dot(b1, b1) * 10000)
             IN  IF den = 0 THEN 0 ELSE Quot(Dot(a1, b1) * Scale * 100, den)

cosine(a, b) ==
    IF Len(a) = 0 \/ Len(b) = 0 \/ Len(a) # Len(b) THEN 0
    ELSE LET dot == Dot(a, b)
             na  == Dot(a, a)
             nb  == Dot(b, b)
             \* den, in hundredths
             den == Sqrt(na * nb * 10000)
         IN  IF den = 0 THEN 0 ELSE Quot(dot * Scale * 100, den)

(***************************************************************************)
(* smetrics.Jaro and smetrics.JaroWinkler, as called by jaroWinkler.       *)
(***************************************************************************)
\* Step 1 of Jaro: the pairs <<i, j>> with a[i] matched to b[j], scanning i
\* upwards and taking for each i the first free j of its window.
RECURSIVE JaroMatches(_, _, _, _, _)
JaroMatches(a, b, i, range, m) ==
    IF i > Len(a) THEN m
    ELSE LET start == Max(1, i - range)
             end   == Min(Len(b), i + range)
             used  == {p[2] : p \in m}
             free  == {j \in start..end : j \notin used /\ a[i] = b[j]}
         IN  IF free = {} THEN JaroMatches(a, b, i + 1, range, m)
             ELSE LET j == CHOOSE x \in free : \A y \in free : x <= y
                  IN  JaroMatches(a, b, i + 1, range, m \cup {<<i, j>>})

\* the k-th smallest element of a finite set of integers
RECURSIVE Nth(_, _)
Nth(S, k) ==
    LET lo == CHOOSE x \in S : \A y \in S : x <= y
    IN  IF k = 1 THEN lo ELSE Nth(S \ {lo}, k - 1)

Jaro(a, b) ==
    IF Len(a) = 0 /\ Len(b) = 0 THEN Scale
    ELSE IF Len(a) = 0 \/ Len(b) = 0 THEN 0
    ELSE LET range   == Max(0, (Max(Len(a), Len(b)) \div 2) - 1)
             m       == JaroMatches(a, b, 1, range, {})
             matches == Cardinality(m)
             ia      == {p[1] : p \in m}
             jb      == {p[2] : p \in m}
             unaligned ==
                 Cardinality({k \in 1..matches : a[Nth(ia, k)] # b[Nth(jb, k)]})
             transpositions == unaligned \div 2
         IN  IF matches = 0 THEN 0
             ELSE ( (matches * Scale) \div Len(a)
                  + (matches * Scale) \div Len(b)
                  + ((matches - transpositions) * Scale) \div matches ) \div 3

RECURSIVE PrefixMatch(_, _, _, _)
PrefixMatch(a, b, i, n) ==
    IF i > n \/ a[i] # b[i] THEN 0 ELSE 1 + PrefixMatch(a, b, i + 1, n)

JaroWinkler(a, b) ==
    LET j == Jaro(a, b)
    IN  IF j * 10 <= 7 * Scale THEN j
        ELSE LET n == Min(Len(a), Min(prefixSize, Len(b)))
             IN  j + (PrefixMatch(a, b, 1, n) * (Scale - j)) \div 10

jaroWinkler(a, b) == JaroWinkler(ToLower(TrimSpace(a)), ToLower(TrimSpace(b)))

max3(a, b, c) == Max(a, Max(b, c))


(***************************************************************************)
(* Data.  A Product keeps the fields Rebuild and Search read; SellerID,    *)
(* CategoryID, Status and Score are carried along unread and left out.     *)
(***************************************************************************)
Product(id, title, brand, description) ==
    [ID |-> id, Title |-> title, Brand |-> brand, Description |-> description]

\* the catalog items a caller may hand to Rebuild; the third has an empty
\* search text, and a list may name the same item (the same ID) twice
Catalog ==
    { Product(1, <<"a", "b">>, <<>>, <<>>),
      Product(2, <<>>, <<"B">>, <<>>),
      Product(3, <<" ">>, <<>>, <<" ">>) }

RECURSIVE SeqsUpTo(_, _)
SeqsUpTo(S, n) ==
    IF n = 0 THEN {<<>>}
    ELSE LET shorter == SeqsUpTo(S, n - 1)
         IN  shorter \cup {Append(s, x) : s \in shorter, x \in S}

Inputs == SeqsUpTo(Catalog, MaxInput)

\* what the embedding provider may answer
Vectors == {<<1, 0>>, <<0, 1>>}

\* the q parameter of a request
RawQueries == {<<>>, <<" ">>, <<"a", "b">>, <<"B", " ">>}

TopKs == -1..MaxTopK

Rebuilders == {"r1", "r2"}
Handlers == {"h1", "h2"}
None == "none"

\* the zero value of productDoc: what a read past the end of an array finds
ZeroDoc == [P |-> Product(0, <<>>, <<>>, <<>>), Embedding |-> <<>>, SearchText |-> <<>>]

VARIABLES
    docs,       \* ix.docs, a slice header: [arr, len]
    mu,         \* ix.mu: [w, held, readers]
    rpc,        \* Rebuild: where each call is
    products,   \* Rebuild: its argument
    ri,         \* Rebuild: the item whose embedding request is in flight
    rdocs,      \* Rebuild: its local docs
    rerr,       \* Rebuild: the error it returned (<<>>: nil, else <<the product ID>>)
    hpc,        \* /search handler: where each request is
    rawq,       \* handler: q
    topK,       \* handler: topK
    rw,         \* handler: the Rewrite in use
    rwerr,      \* handler: whether RewriteQuery returned an error
    vi,         \* handler: the variant being searched (0: primary, i: alternative i)
    best,       \* handler: best, a map from product ID to SearchResult
    out,        \* handler: out, the response's results
    sq,         \* Search: q, the trimmed query
    qVec,       \* Search: qVec
    seen,       \* Search: the documents its range loop iterated, <<>> before it
    results,    \* Search: results
    calls,      \* history: the Search calls each request has completed
    published,  \* history: the corpora stored into ix.docs, in order, and by whom
    before      \* history of each Rebuild call: ix.docs, Len(published) and the
                \* Rebuild calls in progress when it was called, and the answers
                \* to its embedding requests, each with the text it was for

rvars == <<rpc, products, ri, rdocs, rerr>>
hvars == <<hpc, rawq, topK, rw, rwerr, vi, best, out>>
svars == <<sq, qVec, seen, results>>
vars == <<docs, mu, rvars, hvars, svars, calls, published, before>>

(***************************************************************************)
(* sync.RWMutex.  w is the goroutine that has called Lock and not yet      *)
(* Unlock; held says that its Lock has returned.  A Lock waits for the     *)
(* readers to leave, and an RLock waits while a Lock is pending or held.   *)
(***************************************************************************)
Unlocked == [w |-> None, held |-> FALSE, readers |-> {}]
\* a variant: Lock does not wait for another writer
CanLockAnyTime == TRUE
\* Lock: no other writer has called Lock and not yet Unlock
CanLock == mu.w = None
\* a variant: a reader that does not wait for the writer
CanRLockAnyTime == TRUE
CanRLock == mu.w = None

(***************************************************************************)
(* The slice ix.docs.                                                      *)
(***************************************************************************)
Slice(arr) == [arr |-> arr, len |-> Len(arr)]

\* the elements a range over the slice header h visits
ReadDocs(h) == [i \in 1..h.len |-> IF i <= Len(h.arr) THEN h.arr[i] ELSE ZeroDoc]

(***************************************************************************)
(* Index.Rebuild                                                           *)
(***************************************************************************)
\* a variant: no item is skipped
NeverSkipped(p) == FALSE

\* `if joined == "" { continue }`
Skipped(p) == SearchText(p) = <<>>

\* the first item at or after i that the loop does not skip; Len + 1 if none
RECURSIVE NextItem(_, _)
NextItem(ps, i) ==
    IF i > Len(ps) THEN i
    ELSE IF Skipped(ps[i]) THEN NextItem(ps, i + 1) ELSE i

\* the loop runs until its next embedding request, or to ix.mu.Lock()
RebuildGoto(r, j) ==
    /\ ri' = [ri EXCEPT ![r] = j]
    /\ rpc' = [rpc EXCEPT ![r] = IF j > Len(products'[r]) THEN "lock" ELSE "embed"]

\* a variant: the lock is taken on entry and held while the items are embedded
RebuildCallLocking(r, input) ==
    /\ rpc[r] = "idle"
    /\ CanLock /\ mu.readers = {}
    /\ mu' = [mu EXCEPT !.w = r, !.held = TRUE]
    /\ products' = [products EXCEPT ![r] = input]
    /\ rdocs' = [rdocs EXCEPT ![r] = <<>>]
    /\ RebuildGoto(r, NextItem(input, 1))
    /\ before' = [before EXCEPT ![r] =
           [docs |-> docs, npub |-> Len(published),
            running |-> {x \in Rebuilders : rpc[x] \notin {"idle", "done"}},
            answers |-> <<>>]]
    /\ UNCHANGED <<docs, rerr, hvars, svars, calls, published>>

RebuildCall(r, input) ==
    /\ rpc[r] = "idle"
    /\ products' = [products EXCEPT ![r] = input]
    /\ rdocs' = [rdocs EXCEPT ![r] = <<>>]
    /\ RebuildGoto(r, NextItem(input, 1))
    /\ before' = [before EXCEPT ![r] =
           [docs |-> docs, npub |-> Len(published),
            running |-> {x \in Rebuilders : rpc[x] \notin {"idle", "done"}},
            answers |-> <<>>]]
    /\ UNCHANGED <<docs, mu, rerr, hvars, svars, calls, published>>

\* a variant: the new document is put in front of the others
RebuildEmbeddedPrepend(r, v) ==
    /\ rpc[r] = "embed"
    /\ LET p == products[r][ri[r]]
       IN  /\ rdocs' = [rdocs EXCEPT ![r] =
                  <<[P |-> p, Embedding |-> v, SearchText |-> SearchText(p)]>> \o @]
           /\ before' = [before EXCEPT ![r].answers =
                  Append(@, [text |-> SearchText(p), vec |-> v])]
    /\ products' = products
    /\ RebuildGoto(r, NextItem(products[r], ri[r] + 1))
    /\ UNCHANGED <<docs, mu, rerr, hvars, svars, calls, published>>

\* EmbedContent answers with the vector v
RebuildEmbedded(r, v) ==
    /\ rpc[r] = "embed"
    /\ LET p == products[r][ri[r]]
       IN  /\ rdocs' = [rdocs EXCEPT ![r] =
                  Append(@, [P |-> p, Embedding |-> v, SearchText |-> SearchText(p)])]
           /\ before' = [before EXCEPT ![r].answers =
                  Append(@, [text |-> SearchText(p), vec |-> v])]
    /\ products' = products
    /\ RebuildGoto(r, NextItem(products[r], ri[r] + 1))
    /\ UNCHANGED <<docs, mu, rerr, hvars, svars, calls, published>>

\* a variant: the documents built so far are stored before the error is returned
RebuildEmbedFailedPartial(r) ==
    /\ rpc[r] = "embed"
    /\ rpc' = [rpc EXCEPT ![r] = "done"]
    /\ rerr' = [rerr EXCEPT ![r] = <<products[r][ri[r]].ID>>]
    /\ docs' = [arr |-> rdocs[r], len |-> Len(rdocs[r])]
    /\ UNCHANGED <<mu, products, ri, rdocs, hvars, svars, calls, published, before>>

\* EmbedContent fails (the provider, or ctx cancelled or past its deadline)
RebuildEmbedFailed(r) ==
    /\ rpc[r] = "embed"
    /\ rpc' = [rpc EXCEPT ![r] = "done"]
    /\ rerr' = [rerr EXCEPT ![r] = <<products[r][ri[r]].ID>>]
    /\ UNCHANGED <<docs, mu, products, ri, rdocs, hvars, svars, calls, published, before>>

\* ix.mu.Lock() is called: later readers wait
RebuildLock(r) ==
    /\ rpc[r] = "lock"
    /\ CanLock
    /\ mu' = [mu EXCEPT !.w = r]
    /\ rpc' = [rpc EXCEPT ![r] = "wait"]
    /\ UNCHANGED <<docs, products, ri, rdocs, rerr, hvars, svars, calls, published, before>>

\* ix.mu.Lock() returns: the readers have left
RebuildLocked(r) ==
    /\ rpc[r] = "wait"
    /\ mu.readers = {}
    /\ mu' = [mu EXCEPT !.held = TRUE]
    /\ rpc' = [rpc EXCEPT ![r] = "store"]
    /\ UNCHANGED <<docs, products, ri, rdocs, rerr, hvars, svars, calls, published, before>>

\* ix.docs = docs stores a slice header, which is more than one word: first
\* the array, then the length
RebuildStoreArray(r) ==
    /\ rpc[r] = "store"
    /\ docs' = [docs EXCEPT !.arr = rdocs[r]]
    /\ rpc' = [rpc EXCEPT ![r] = "storelen"]
    /\ UNCHANGED <<mu, products, ri, rdocs, rerr, hvars, svars, calls, published, before>>

RebuildStoreLen(r) ==
    /\ rpc[r] = "storelen"
    /\ docs' = [docs EXCEPT !.len = Len(rdocs[r])]
    /\ published' = Append(published, [by |-> r, corpus |-> rdocs[r]])
    /\ rpc' = [rpc EXCEPT ![r] = "unlock"]
    /\ UNCHANGED <<mu, products, ri, rdocs, rerr, hvars, svars, calls, before>>

\* ix.mu.Unlock(); return nil
RebuildUnlock(r) ==
    /\ rpc[r] = "unlock"
    /\ mu' = [mu EXCEPT !.w = None, !.held = FALSE]
    /\ rpc' = [rpc EXCEPT ![r] = "done"]
    /\ rerr' = [rerr EXCEPT ![r] = <<>>]
    /\ UNCHANGED <<docs, products, ri, rdocs, hvars, svars, calls, published, before>>

(***************************************************************************)
(* nlp.normalize and nlp.RewriteQuery.  What the model answers is one of   *)
(* LLMAnswers: an error, text that does not decode, or a decoded Rewrite.  *)
(***************************************************************************)
Rewrite(primary, alternatives) == [Primary |-> primary, Alternatives |-> alternatives]

\* the loop over r.Alternatives: seen holds the lower-cased strings kept so far
RECURSIVE CleanAlternatives(_, _, _)
CleanAlternatives(alts, seenSet, kept) ==
    IF alts = <<>> \/ Len(kept) >= MaxAlternatives THEN kept
    ELSE LET s == TrimSpace(Head(alts))
         IN  IF s = <<>> \/ ToLower(s) \in seenSet
             THEN CleanAlternatives(Tail(alts), seenSet, kept)
             ELSE CleanAlternatives(Tail(alts), seenSet \cup {ToLower(s)}, Append(kept, s))

normalize(r) ==
    LET p == TrimSpace(r.Primary)
    IN  Rewrite(p, CleanAlternatives(r.Alternatives, IF p = <<>> THEN {} ELSE {ToLower(p)}, <<>>))

LLMError == [kind |-> "error", r |-> Rewrite(<<>>, <<>>)]
LLMBadJSON == [kind |-> "badjson", r |-> Rewrite(<<>>, <<>>)]
LLMDecoded(r) == [kind |-> "ok", r |-> r]

\* [err, rw]: what RewriteQuery(ctx, gm, raw) returns when the model answers llm
RewriteQuery(raw, llm) ==
    LET t == TrimSpace(raw)
    IN  IF t = <<>> THEN [err |-> TRUE, rw |-> Rewrite(<<>>, <<>>)]
        ELSE IF llm.kind = "error" THEN [err |-> TRUE, rw |-> Rewrite(<<>>, <<>>)]
        ELSE IF llm.kind = "badjson" THEN [err |-> FALSE, rw |-> Rewrite(t, <<>>)]
        ELSE LET n == normalize(llm.r)
             IN  [err |-> FALSE,
                  rw |-> IF n.Primary = <<>> THEN Rewrite(t, n.Alternatives) ELSE n]

(***************************************************************************)
(* Index.Search: scoring, sort.Slice, truncation.                          *)
(***************************************************************************)
\* a variant: the fuzzy term is left out of the score
ScoreDocSemanticOnly(q, v, d) ==
    LET sem == cosine(v, d.Embedding)
        fuz == max3(jaroWinkler(q, d.P.Title),
                    jaroWinkler(q, d.P.Brand),
                    jaroWinkler(q, d.P.Description))
    IN  [Product |-> d.P, Score |-> semanticWeight * sem,
         Semantic |-> sem, Fuzzy |-> fuz]

ScoreDoc(q, v, d) ==
    LET sem == cosine(v, d.Embedding)
        fuz == max3(jaroWinkler(q, d.P.Title),
                    jaroWinkler(q, d.P.Brand),
                    jaroWinkler(q, d.P.Description))
    IN  [Product |-> d.P, Score |-> semanticWeight * sem + fuzzyWeight * fuz,
         Semantic |-> sem, Fuzzy |-> fuz]

ScoreAll(q, v, ds) == [i \in 1..Len(ds) |-> ScoreDoc(q, v, ds[i])]

\* a variant: ascending order
LessAscending(a, b) == a.Score < b.Score

\* func(i, j int) bool { return results[i].Score > results[j].Score }
Less(a, b) == a.Score > b.Score

Orderings(list) ==
    LET n == Len(list)
    IN  {[i \in 1..n |-> list[f[i]]] :
            f \in {g \in [1..n -> 1..n] : \A i, j \in 1..n : g[i] = g[j] => i = j}}

\* a variant: the list is left in the order it came in, or any other
Unsorted(list) == Orderings(list)

\* sort.Slice is not stable: any ordering of the list that no pair contradicts
SortSlice(list) ==
    {s \in Orderings(list) : \A i, j \in 1..Len(s) : i < j => ~Less(s[j], s[i])}

\* a variant: without the topK > 0 test
TruncateAnyK(list, k) == IF k < Len(list) THEN SubSeq(list, 1, IF k > 0 THEN k ELSE 0) ELSE list

\* a variant: the last topK results are kept
TruncateKeepLast(list, k) ==
    IF k > 0 /\ k < Len(list) THEN SubSeq(list, Len(list) - k + 1, Len(list)) ELSE list

\* `if topK > 0 && topK < len(results) { results = results[:topK] }`
Truncate(list, k) == IF k > 0 /\ k < Len(list) THEN SubSeq(list, 1, k) ELSE list

(***************************************************************************)
(* The /search handler: merge, and the flattening of best.                 *)
(***************************************************************************)
\* a variant: the entry seen last wins
RECURSIVE mergeLastWins(_, _)
mergeLastWins(b, list) ==
    IF list = <<>> THEN b
    ELSE LET it == Head(list)
             id == it.Product.ID
         IN  mergeLastWins([k \in DOMAIN b \cup {id} |-> IF k = id THEN it ELSE b[k]],
                           Tail(list))

\* a variant: a greater score is copied into the entry, which keeps the
\* sub-scores it had
RECURSIVE mergeScoreOnly(_, _)
mergeScoreOnly(b, list) ==
    IF list = <<>> THEN b
    ELSE LET it == Head(list)
             id == it.Product.ID
         IN  IF id \notin DOMAIN b
             THEN mergeScoreOnly([k \in DOMAIN b \cup {id} |-> IF k = id THEN it ELSE b[k]],
                                 Tail(list))
             ELSE IF it.Score > b[id].Score
             THEN mergeScoreOnly([b EXCEPT ![id].Score = it.Score], Tail(list))
             ELSE mergeScoreOnly(b, Tail(list))

\* merge(list), from the map b
RECURSIVE merge(_, _)
merge(b, list) ==
    IF list = <<>> THEN b
    ELSE LET it == Head(list)
             id == it.Product.ID
         IN  IF id \notin DOMAIN b
             THEN merge([k \in DOMAIN b \cup {id} |-> IF k = id THEN it ELSE b[k]], Tail(list))
             ELSE IF it.Score > b[id].Score
             THEN merge([b EXCEPT ![id] = it], Tail(list))
             ELSE merge(b, Tail(list))

EmptyMap == [k \in {} |-> 0]

\* `for _, v := range best`: a map is ranged over in any order
Flatten(b) ==
    LET n == Cardinality(DOMAIN b)
    IN  {[i \in 1..n |-> b[f[i]]] :
            f \in {g \in [1..n -> DOMAIN b] : \A i, j \in 1..n : g[i] = g[j] => i = j}}

\* the query string of the variant a request is at
Variant(h) == IF vi[h] = 0 THEN rw[h].Primary ELSE rw[h].Alternatives[vi[h]]

\* a variant: an error ends the loop over the variants
LastVariantOrError(h, err) == err \/ vi[h] >= Len(rw[h].Alternatives)

\* whether the Search that returned was for the last variant: an error does
\* not end the loop over rw.Alternatives
LastVariant(h, err) == vi[h] >= Len(rw[h].Alternatives)

\* Search has returned (res, err) to the handler: it merges, and goes on to the
\* next variant or, past the last one, flattens, sorts, truncates and answers
Returned(h, res, err, docsSeen) ==
    LET b    == IF err THEN best[h] ELSE merge(best[h], res)
        last == LastVariant(h, err)
    IN  /\ best' = [best EXCEPT ![h] = b]
        /\ calls' = [calls EXCEPT ![h] =
               Append(@, [query |-> Variant(h), k |-> topK[h], q |-> sq[h],
                          vec |-> qVec[h], err |-> err, results |-> res,
                          seen |-> docsSeen])]
        /\ sq' = [sq EXCEPT ![h] = <<>>]
        /\ qVec' = [qVec EXCEPT ![h] = <<>>]
        /\ seen' = [seen EXCEPT ![h] = <<>>]
        /\ results' = [results EXCEPT ![h] = <<>>]
        /\ IF last
           THEN /\ hpc' = [hpc EXCEPT ![h] = "done"]
                /\ vi' = vi
                /\ \E f \in Flatten(b) : \E o \in SortSlice(f) :
                       out' = [out EXCEPT ![h] = Truncate(o, topK[h])]
           ELSE /\ hpc' = [hpc EXCEPT ![h] = "call"]
                /\ vi' = [vi EXCEPT ![h] = @ + 1]
                /\ out' = out

\* a request arrives: q, topK, and the rewriter's answer
HandleSearch(h, raw, k, llm) ==
    /\ hpc[h] = "idle"
    /\ rawq' = [rawq EXCEPT ![h] = raw]
    /\ topK' = [topK EXCEPT ![h] = k]
    /\ LET got == RewriteQuery(raw, llm)
       IN  /\ rw' = [rw EXCEPT ![h] = IF got.err THEN Rewrite(raw, <<>>) ELSE got.rw]
           /\ rwerr' = [rwerr EXCEPT ![h] = got.err]
    /\ hpc' = [hpc EXCEPT ![h] = "call"]
    /\ UNCHANGED <<docs, mu, rvars, vi, best, out, svars, calls, published, before>>

\* ix.Search(ctx, variant, topK) up to its embedding request
SearchCall(h) ==
    /\ hpc[h] = "call"
    /\ LET t == TrimSpace(Variant(h))
       IN  IF t = <<>>
           THEN /\ Returned(h, <<>>, FALSE, <<>>)
                /\ UNCHANGED <<docs, mu, rvars, rawq, topK, rw, rwerr, published, before>>
           ELSE /\ sq' = [sq EXCEPT ![h] = t]
                /\ hpc' = [hpc EXCEPT ![h] = "embed"]
                /\ UNCHANGED <<docs, mu, rvars, rawq, topK, rw, rwerr, vi, best, out,
                               qVec, seen, results, calls, published, before>>

\* EmbedContent answers with the vector v
SearchEmbedded(h, v) ==
    /\ hpc[h] = "embed"
    /\ qVec' = [qVec EXCEPT ![h] = v]
    /\ hpc' = [hpc EXCEPT ![h] = "rlock"]
    /\ UNCHANGED <<docs, mu, rvars, rawq, topK, rw, rwerr, vi, best, out,
                   sq, seen, results, calls, published, before>>

\* a variant: the error is swallowed, and an empty list returned
SearchEmbedFailedQuietly(h) ==
    /\ hpc[h] = "embed"
    /\ Returned(h, <<>>, FALSE, <<>>)
    /\ UNCHANGED <<docs, mu, rvars, rawq, topK, rw, rwerr, published, before>>

\* EmbedContent fails: return nil, err
SearchEmbedFailed(h) ==
    /\ hpc[h] = "embed"
    /\ Returned(h, <<>>, TRUE, <<>>)
    /\ UNCHANGED <<docs, mu, rvars, rawq, topK, rw, rwerr, published, before>>

\* ix.mu.RLock()
SearchRLock(h) ==
    /\ hpc[h] = "rlock"
    /\ CanRLock
    /\ mu' = [mu EXCEPT !.readers = @ \cup {h}]
    /\ hpc' = [hpc EXCEPT ![h] = "score"]
    /\ UNCHANGED <<docs, rvars, rawq, topK, rw, rwerr, vi, best, out, svars, calls, published, before>>

\* the loop over ix.docs, sort.Slice and the truncation
SearchScore(h) ==
    /\ hpc[h] = "score"
    /\ LET ds == ReadDocs(docs)
       IN  /\ seen' = [seen EXCEPT ![h] = <<ds>>]
           /\ \E sorted \in SortSlice(ScoreAll(sq[h], qVec[h], ds)) :
                  results' = [results EXCEPT ![h] = Truncate(sorted, topK[h])]
    /\ hpc' = [hpc EXCEPT ![h] = "return"]
    /\ UNCHANGED <<docs, mu, rvars, rawq, topK, rw, rwerr, vi, best, out, sq, qVec,
                   calls, published, before>>

\* a variant: the read lock is not released
SearchReturnNoUnlock(h) ==
    /\ hpc[h] = "return"
    /\ mu' = mu
    /\ Returned(h, results[h], FALSE, seen[h])
    /\ UNCHANGED <<docs, rvars, rawq, topK, rw, rwerr, published, before>>

\* return results, nil; the deferred ix.mu.RUnlock() runs
SearchReturn(h) ==
    /\ hpc[h] = "return"
    /\ mu' = [mu EXCEPT !.readers = @ \ {h}]
    /\ Returned(h, results[h], FALSE, seen[h])
    /\ UNCHANGED <<docs, rvars, rawq, topK, rw, rwerr, published, before>>

(***************************************************************************)
(* The system.  main builds the index from its startup catalog before it   *)
(* serves, so the service starts with the corpus that Rebuild built from   *)
(* `initial`, whatever vectors the provider answered.  /reindex requests   *)
(* call Rebuild and /search requests call Search, on that one Index.       *)
(***************************************************************************)
\* main's startup catalog: items with distinct IDs and non-empty texts
initial == <<Product(1, <<"a", "b">>, <<>>, <<>>), Product(2, <<>>, <<"B">>, <<>>)>>

\* the corpora Rebuild builds from the list ps when every request succeeds
RECURSIVE Built(_)
Built(ps) ==
    IF ps = <<>> THEN {<<>>}
    ELSE LET p    == ps[Len(ps)]
             rest == Built(SubSeq(ps, 1, Len(ps) - 1))
         IN  IF Skipped(p) THEN rest
             ELSE {Append(c, [P |-> p, Embedding |-> v, SearchText |-> SearchText(p)]) :
                      c \in rest, v \in Vectors}

Init ==
    /\ \E c \in Built(initial) :
           docs = Slice(c) /\ published = <<[by |-> "main", corpus |-> c]>>
    /\ before = [r \in Rebuilders |->
                   [docs |-> Slice(<<>>), npub |-> 0, running |-> {}, answers |-> <<>>]]
    /\ mu = Unlocked
    /\ rpc = [r \in Rebuilders |-> "idle"]
    /\ products = [r \in Rebuilders |-> <<>>]
    /\ ri = [r \in Rebuilders |-> 0]
    /\ rdocs = [r \in Rebuilders |-> <<>>]
    /\ rerr = [r \in Rebuilders |-> <<>>]
    /\ hpc = [h \in Handlers |-> "idle"]
    /\ rawq = [h \in Handlers |-> <<>>]
    /\ topK = [h \in Handlers |-> 0]
    /\ rw = [h \in Handlers |-> Rewrite(<<>>, <<>>)]
    /\ rwerr = [h \in Handlers |-> FALSE]
    /\ vi = [h \in Handlers |-> 0]
    /\ best = [h \in Handlers |-> EmptyMap]
    /\ out = [h \in Handlers |-> <<>>]
    /\ sq = [h \in Handlers |-> <<>>]
    /\ qVec = [h \in Handlers |-> <<>>]
    /\ seen = [h \in Handlers |-> <<>>]
    /\ results = [h \in Handlers |-> <<>>]
    /\ calls = [h \in Handlers |-> <<>>]

\* the steps of a Rebuild call
RebuildSteps(r) ==
    \/ \E v \in Vectors : RebuildEmbedded(r, v)
    \/ RebuildEmbedFailed(r)
    \/ RebuildLock(r)
    \/ RebuildLocked(r)
    \/ RebuildStoreArray(r)
    \/ RebuildStoreLen(r)
    \/ RebuildUnlock(r)

\* the steps of the Search calls of a request
SearchSteps(h) ==
    \/ SearchCall(h)
    \/ \E v \in Vectors : SearchEmbedded(h, v)
    \/ SearchEmbedFailed(h)
    \/ SearchRLock(h)
    \/ SearchScore(h)
    \/ SearchReturn(h)

(***************************************************************************)
(* Spec: one /reindex request with any product list and one /search        *)
(* request with any query and topK, while the rewriter is down (the        *)
(* handler then searches the raw query as the only variant).               *)
(***************************************************************************)
Next ==
    \/ \E input \in Inputs : RebuildCall("r1", input)
    \/ RebuildSteps("r1")
    \/ \E raw \in RawQueries, k \in TopKs : HandleSearch("h1", raw, k, LLMError)
    \/ SearchSteps("h1")

Spec == Init /\ [][Next]_vars

(***************************************************************************)
(* SpecMerge: one /search request whose rewriter answers, so that several  *)
(* variants are searched and merged, while one /reindex request replaces   *)
(* the corpus by one in which an ID occurs twice.                          *)
(***************************************************************************)
LLMAnswers ==
    { LLMError,
      LLMBadJSON,
      LLMDecoded(Rewrite(<<"a", "b">>, << <<"B">> >>)),
      LLMDecoded(Rewrite(<<" ">>, << <<"A", "B">>, <<" ">>, <<"b">>, <<"a", "b">> >>)) }

MergeInputs ==
    { <<Product(1, <<"a", "b">>, <<>>, <<>>), Product(1, <<"a", "b">>, <<>>, <<>>)>> }

NextMerge ==
    \/ \E input \in MergeInputs : RebuildCall("r1", input)
    \/ RebuildSteps("r1")
    \/ \E raw \in RawQueries, k \in TopKs, llm \in LLMAnswers : HandleSearch("h1", raw, k, llm)
    \/ SearchSteps("h1")

SpecMerge == Init /\ [][NextMerge]_vars

(***************************************************************************)
(* SpecConc: two /reindex requests and two /search requests at once, with  *)
(* fixed arguments (the provider's answers are not fixed), the rewriter    *)
(* being down.                                                             *)
(***************************************************************************)
ConcInputs ==
    { <<Product(3, <<" ">>, <<>>, <<" ">>), Product(2, <<>>, <<"B">>, <<>>)>> }

NextConc ==
    \/ \E r \in Rebuilders :
          \/ \E input \in ConcInputs : RebuildCall(r, input)
          \/ RebuildSteps(r)
    \/ \E h \in Handlers :
          \/ HandleSearch(h, <<"a", "b">>, 1, LLMError)
          \/ SearchSteps(h)

SpecConc == Init /\ [][NextConc]_vars

(***************************************************************************)
(* SpecLive: one /reindex request and two /search requests at once, with   *)
(* the scheduling the runtime gives: a goroutine that can take the next    *)
(* step of its call does take it, and an embedding request in flight is    *)
(* answered, by a vector or by an error.  Nothing makes a request arrive.  *)
(* The fairness of the scoring step is written out, with the condition     *)
(* under which it can be taken (the call is at it: sort.Slice and the loop *)
(* always end) in the place of ENABLED.                                    *)
(***************************************************************************)
NextLive ==
    \/ \E input \in ConcInputs : RebuildCall("r1", input)
    \/ RebuildSteps("r1")
    \/ \E h \in Handlers :
          \/ HandleSearch(h, <<"a", "b">>, 1, LLMError)
          \/ SearchSteps(h)

Fairness ==
    /\ \A r \in Rebuilders : WF_vars(RebuildSteps(r))
    /\ \A h \in Handlers :
          /\ WF_vars(SearchCall(h))
          /\ WF_vars((\E v \in Vectors : SearchEmbedded(h, v)) \/ SearchEmbedFailed(h))
          /\ WF_vars(SearchRLock(h))
          /\ []<>(hpc[h] # "score") \/ []<><<SearchScore(h)>>_vars
          /\ WF_vars(SearchReturn(h))

SpecLive == Init /\ [][NextLive]_vars /\ Fairness

(***************************************************************************)
(* SpecWriters: two /reindex requests with different product lists, whose  *)
(* calls of Rebuild may overlap, succeed or fail, and one /search request  *)
(* with fixed arguments, the rewriter being down.                          *)
(***************************************************************************)
WriterInputs ==
    { <<Product(1, <<"a", "b">>, <<>>, <<>>), Product(3, <<" ">>, <<>>, <<" ">>),
        Product(2, <<>>, <<"B">>, <<>>)>>,
      <<Product(2, <<>>, <<"B">>, <<>>)>> }

NextWriters ==
    \/ \E r \in Rebuilders :
          \/ \E input \in WriterInputs : RebuildCall(r, input)
          \/ RebuildSteps(r)
    \/ HandleSearch("h1", <<"a", "b">>, 1, LLMError)
    \/ SearchSteps("h1")

SpecWriters == Init /\ [][NextWriters]_vars

(***************************************************************************)
(* SpecTrunc: one /search request with a positive topK, searched as one    *)
(* variant or as two, and one /reindex request which replaces the corpus   *)
(* by one of three documents, with three IDs or with the same item twice.  *)
(***************************************************************************)
TruncInputs ==
    { <<Product(1, <<"a", "b">>, <<>>, <<>>), Product(2, <<>>, <<"B">>, <<>>),
        Product(4, <<"b">>, <<>>, <<>>)>>,
      <<Product(1, <<"a", "b">>, <<>>, <<>>), Product(1, <<"a", "b">>, <<>>, <<>>),
        Product(2, <<>>, <<"B">>, <<>>)>> }

TruncTopKs == 1..(MaxTopK + 1)

TruncAnswers == {LLMError, LLMDecoded(Rewrite(<<"a", "b">>, << <<"B">> >>))}

NextTrunc ==
    \/ \E input \in TruncInputs : RebuildCall("r1", input)
    \/ RebuildSteps("r1")
    \/ \E k \in TruncTopKs, llm \in TruncAnswers : HandleSearch("h1", <<"a", "b">>, k, llm)
    \/ SearchSteps("h1")

SpecTrunc == Init /\ [][NextTrunc]_vars

(***************************************************************************)
(* SpecVec: the provider answers with any vector of WideVectors: empty, of *)
(* another length, of zero magnitude, with a negative component, or not of *)
(* unit length.  One /reindex request and one /search request with a fixed *)
(* query and any topK, the rewriter being down.                            *)
(***************************************************************************)
WideVectors == {<<>>, <<1>>, <<0, 0>>, <<1, 0>>, <<-1, 0>>, <<1, 2>>}

VecInputs ==
    { <<Product(1, <<"a", "b">>, <<>>, <<>>), Product(2, <<>>, <<"B">>, <<>>)>> }

NextVec ==
    \/ \E input \in VecInputs : RebuildCall("r1", input)
    \/ \E v \in WideVectors : RebuildEmbedded("r1", v)
    \/ RebuildEmbedFailed("r1")
    \/ RebuildLock("r1")
    \/ RebuildLocked("r1")
    \/ RebuildStoreArray("r1")
    \/ RebuildStoreLen("r1")
    \/ RebuildUnlock("r1")
    \/ \E k \in TopKs : HandleSearch("h1", <<"a", "b">>, k, LLMError)
    \/ SearchCall("h1")
    \/ \E v \in WideVectors : SearchEmbedded("h1", v)
    \/ SearchEmbedFailed("h1")
    \/ SearchRLock("h1")
    \/ SearchScore("h1")
    \/ SearchReturn("h1")

SpecVec == Init /\ [][NextVec]_vars

(***************************************************************************)
(* SpecE2E: the startup catalog of main, with its four products as they    *)
(* are written there, whatever vectors the provider answered for them; one *)
(* /search request for "iphone 14" which the rewriter answers with the     *)
(* primary "iphone 14" and the alternative "apple iphone".                 *)
(***************************************************************************)
\* {ID: 1, Title: "Apple iPhone 14 Pro", Brand: "Apple", Description: "6.1-inch, A16 Bionic, 48MP camera"}
iPhone ==
    Product(1,
        << "A", "p", "p", "l", "e", " ", "i", "P", "h", "o", "n", "e",
           " ", "1", "4", " ", "P", "r", "o" >>,
        << "A", "p", "p", "l", "e" >>,
        << "6", ".", "1", "-", "i", "n", "c", "h", ",", " ", "A", "1",
           "6", " ", "B", "i", "o", "n", "i", "c", ",", " ", "4", "8",
           "M", "P", " ", "c", "a", "m", "e", "r", "a" >>)

\* {ID: 2, Title: "Samsung Galaxy S23", Brand: "Samsung", Description: "Dynamic AMOLED 2X, Snapdragon"}
Galaxy ==
    Product(2,
        << "S", "a", "m", "s", "u", "n", "g", " ", "G", "a", "l", "a",
           "x", "y", " ", "S", "2", "3" >>,
        << "S", "a", "m", "s", "u", "n", "g" >>,
        << "D", "y", "n", "a", "m", "i", "c", " ", "A", "M", "O", "L",
           "E", "D", " ", "2", "X", ",", " ", "S", "n", "a", "p", "d",
           "r", "a", "g", "o", "n" >>)

\* {ID: 3, Title: "Google Pixel 8", Brand: "Google", Description: "Tensor G3, excellent camera"}
Pixel ==
    Product(3,
        << "G", "o", "o", "g", "l", "e", " ", "P", "i", "x", "e", "l",
           " ", "8" >>,
        << "G", "o", "o", "g", "l", "e" >>,
        << "T", "e", "n", "s", "o", "r", " ", "G", "3", ",", " ", "e",
           "x", "c", "e", "l", "l", "e", "n", "t", " ", "c", "a", "m",
           "e", "r", "a" >>)

\* {ID: 4, Title: "Nokia Lumia 950", Brand: "Nokia", Description: "PureView camera, AMOLED display"}
Lumia ==
    Product(4,
        << "N", "o", "k", "i", "a", " ", "L", "u", "m", "i", "a", " ",
           "9", "5", "0" >>,
        << "N", "o", "k", "i", "a" >>,
        << "P", "u", "r", "e", "V", "i", "e", "w", " ", "c", "a", "m",
           "e", "r", "a", ",", " ", "A", "M", "O", "L", "E", "D", " ",
           "d", "i", "s", "p", "l", "a", "y" >>)

initialCatalog == <<iPhone, Galaxy, Pixel, Lumia>>

\* q=iphone 14, and the Rewrite the model answers
QueryIphone14 == << "i", "p", "h", "o", "n", "e", " ", "1", "4" >>
AltAppleIphone == << "a", "p", "p", "l", "e", " ", "i", "p", "h", "o",
                     "n", "e" >>
RewriteIphone14 == LLMDecoded(Rewrite(QueryIphone14, <<AltAppleIphone>>))

\* parseIntDefault(r.URL.Query().Get("topK"), 10)
DefaultTopK == 10

InitE2E ==
    /\ \E c \in Built(initialCatalog) :
           docs = Slice(c) /\ published = <<[by |-> "main", corpus |-> c]>>
    /\ before = [r \in Rebuilders |->
                   [docs |-> Slice(<<>>), npub |-> 0, running |-> {}, answers |-> <<>>]]
    /\ mu = Unlocked
    /\ rpc = [r \in Rebuilders |-> "idle"]
    /\ products = [r \in Rebuilders |-> <<>>]
    /\ ri = [r \in Rebuilders |-> 0]
    /\ rdocs = [r \in Rebuilders |-> <<>>]
    /\ rerr = [r \in Rebuilders |-> <<>>]
    /\ hpc = [h \in Handlers |-> "idle"]
    /\ rawq = [h \in Handlers |-> <<>>]
    /\ topK = [h \in Handlers |-> 0]
    /\ rw = [h \in Handlers |-> Rewrite(<<>>, <<>>)]
    /\ rwerr = [h \in Handlers |-> FALSE]
    /\ vi = [h \in Handlers |-> 0]
    /\ best = [h \in Handlers |-> EmptyMap]
    /\ out = [h \in Handlers |-> <<>>]
    /\ sq = [h \in Handlers |-> <<>>]
    /\ qVec = [h \in Handlers |-> <<>>]
    /\ seen = [h \in Handlers |-> <<>>]
    /\ results = [h \in Handlers |-> <<>>]
    /\ calls = [h \in Handlers |-> <<>>]

NextE2E ==
    \/ \E k \in TopKs \cup {DefaultTopK} :
           HandleSearch("h1", QueryIphone14, k, RewriteIphone14)
    \/ SearchSteps("h1")

SpecE2E == InitE2E /\ [][NextE2E]_vars

(***************************************************************************)
(* Definitions the properties below are stated with.  They are written     *)
(* without the operators of the model above, so that a property compares   *)
(* what the model does with what is claimed.                               *)
(***************************************************************************)
IsBlank(s) == \A i \in 1..Len(s) : s[i] = " "
AllBlank(p) == IsBlank(p.Title) /\ IsBlank(p.Brand) /\ IsBlank(p.Description)
PublishedCorpora == {published[i].corpus : i \in 1..Len(published)}
LastPublished == published[Len(published)].corpus
RebuildFailed(r) == rpc[r] = "done" /\ rerr[r] # <<>>
RebuildSucceeded(r) == rpc[r] = "done" /\ rerr[r] = <<>>
CallsOf(h) == {calls[h][i] : i \in 1..Len(calls[h])}
AllCalls == UNION {CallsOf(h) : h \in Handlers}
Elements(list) == {list[i] : i \in 1..Len(list)}
NonIncreasing(list) == \A i, j \in 1..Len(list) : i < j => list[i].Score >= list[j].Score

(***************************************************************************)
(* C1.  A Search scores exactly one complete corpus.  From its RLock to    *)
(* its return a Search is among the readers and no Rebuild holds the lock, *)
(* ix.docs is the complete corpus stored last and is still the one that    *)
(* was scored when the Search returns; a Rebuild stores only while it      *)
(* holds the lock with no reader.  So the documents any Search scored are  *)
(* one of the corpora published whole, never part of one or a mix of two.  *)
(***************************************************************************)
C1_SearchScoresOneWholeCorpus ==
    /\ \A h \in Handlers :
          /\ hpc[h] \in {"score", "return"} =>
                /\ h \in mu.readers
                /\ ~mu.held
                /\ docs = [arr |-> LastPublished, len |-> Len(LastPublished)]
          /\ hpc[h] = "return" => seen[h] = <<LastPublished>>
    /\ \A c \in AllCalls : c.seen # <<>> => c.seen[1] \in PublishedCorpora
    /\ \A r \in Rebuilders :
          rpc[r] \in {"store", "storelen", "unlock"} =>
              mu.w = r /\ mu.held /\ mu.readers = {}

\* a Search has scored the old corpus and holds the read lock, while a Rebuild
\* that built a different corpus waits in Lock
C1_Witness ==
    \E h \in Handlers, r \in Rebuilders :
        /\ hpc[h] = "return"
        /\ rpc[r] = "wait"
        /\ seen[h] # <<rdocs[r]>>
        /\ Len(seen[h][1]) > 0

(***************************************************************************)
(* C2.  A Rebuild that returned an error stored nothing: no published      *)
(* corpus is its own, it does not hold the lock, and unless another        *)
(* Rebuild published since it was called, ix.docs is what it was when the  *)
(* call was made (same documents, same order, same embeddings).            *)
(***************************************************************************)
C2_FailedRebuildKeepsCorpus ==
    \A r \in Rebuilders :
        RebuildFailed(r) =>
            /\ \A i \in 1..Len(published) : published[i].by # r
            /\ mu.w # r
            /\ Len(published) = before[r].npub => docs = before[r].docs

\* a Rebuild failed on its second item, after the first was embedded, and the
\* corpus before the call had documents
C2_Witness ==
    \E r \in Rebuilders :
        /\ RebuildFailed(r)
        /\ Len(rdocs[r]) > 0
        /\ Len(before[r].docs.arr) > 0
        /\ docs = before[r].docs

(***************************************************************************)
(* C3.  A Rebuild has no embedding request in flight while it holds or     *)
(* waits for the write lock: it is between Lock and Unlock only for the    *)
(* store.  While every Rebuild is still embedding (or not running) the     *)
(* lock has no writer, so RLock does not wait, and ix.docs is still the    *)
(* corpus published before.                                                *)
(***************************************************************************)
C3_NoEmbeddingUnderLock ==
    /\ \A r \in Rebuilders :
          /\ rpc[r] = "embed" =>
                /\ mu.w # r
                /\ \A i \in 1..Len(published) : published[i].by # r
          /\ mu.w = r => rpc[r] \in {"wait", "store", "storelen", "unlock"}
          /\ (mu.w = r /\ mu.held) => rpc[r] \in {"store", "storelen", "unlock"}
    /\ (\A r \in Rebuilders : rpc[r] \in {"idle", "embed", "lock", "done"}) =>
          /\ mu.w = None
          /\ docs = [arr |-> LastPublished, len |-> Len(LastPublished)]

\* a Search started, took the read lock and scored the old corpus while a
\* Rebuild, with one document built, has its next embedding request in flight
C3_Witness ==
    \E h \in Handlers, r \in Rebuilders :
        /\ rpc[r] = "embed"
        /\ Len(rdocs[r]) > 0
        /\ hpc[h] = "return"
        /\ seen[h] = <<before[r].docs.arr>>

(***************************************************************************)
(* C6.  A Search whose query is empty or all spaces returns an empty list  *)
(* and no error, whatever the limit and the corpus; it never has an        *)
(* embedding request in flight, never holds the read lock, and reads no    *)
(* document.                                                               *)
(***************************************************************************)
C6_BlankQueryReturnsEmpty ==
    /\ \A h \in Handlers :
          hpc[h] \in {"embed", "rlock", "score", "return"} => ~IsBlank(Variant(h))
    /\ \A c \in AllCalls :
          IsBlank(c.query) =>
              ~c.err /\ c.results = <<>> /\ c.seen = <<>> /\ c.vec = <<>>

\* a Search with an all-space query and a positive limit returned, on a
\* corpus with documents
C6_Witness ==
    \E c \in AllCalls :
        IsBlank(c.query) /\ c.query # <<>> /\ c.k > 0 /\ Len(docs.arr) > 0

(***************************************************************************)
(* C7.  A Search with a non-blank query that returned no error returns     *)
(* min(k, N) results when k > 0 and N results when k <= 0, N being the     *)
(* number of documents it read.                                            *)
(***************************************************************************)
C7_TruncationLaw ==
    \A c \in AllCalls :
        (~c.err /\ ~IsBlank(c.query)) =>
            /\ c.seen # <<>>
            /\ LET N == Len(c.seen[1])
               IN  Len(c.results) = IF c.k > 0 THEN (IF c.k < N THEN c.k ELSE N) ELSE N

\* a Search was truncated: fewer results than documents
C7_Witness ==
    \E c \in AllCalls :
        ~c.err /\ c.seen # <<>> /\ c.k > 0 /\ c.k < Len(c.seen[1])

(***************************************************************************)
(* C8.  An item whose title, brand and description are all blank (its      *)
(* search text is then empty) never has an embedding request, is in no     *)
(* Rebuild's documents and in no published corpus, and is in no result; a  *)
(* Rebuild that succeeded built as many documents as its input has items   *)
(* with a non-blank field, and that is the corpus it published.            *)
(***************************************************************************)
C8_EmptyTextNeverIndexed ==
    /\ \A r \in Rebuilders :
          /\ rpc[r] = "embed" => ~AllBlank(products[r][ri[r]])
          /\ \A d \in Elements(rdocs[r]) : ~AllBlank(d.P) /\ d.SearchText # <<>>
          /\ RebuildSucceeded(r) =>
                /\ Len(rdocs[r]) =
                       Cardinality({i \in 1..Len(products[r]) : ~AllBlank(products[r][i])})
                /\ \E i \in 1..Len(published) :
                       published[i] = [by |-> r, corpus |-> rdocs[r]]
    /\ \A d \in Elements(docs.arr) : ~AllBlank(d.P) /\ d.SearchText # <<>>
    /\ \A c \in AllCalls : \A x \in Elements(c.results) : ~AllBlank(x.Product)
    /\ \A h \in Handlers : \A x \in Elements(out[h]) : ~AllBlank(x.Product)

\* a Rebuild whose input had a blank item succeeded with a smaller corpus,
\* and a Search has scored that corpus
C8_Witness ==
    \E r \in Rebuilders :
        /\ RebuildSucceeded(r)
        /\ \E i \in 1..Len(products[r]) : AllBlank(products[r][i])
        /\ Len(rdocs[r]) > 0
        /\ \E c \in AllCalls : c.seen = <<rdocs[r]>> /\ c.results # <<>>

(***************************************************************************)
(* C9.  The step in which the embedding request of a Search fails: the     *)
(* Search returns an error and no result, has read no document, and the    *)
(* corpus, the lock and the published history are unchanged; the caller    *)
(* is not left among the readers.                                          *)
(***************************************************************************)
C9_FailedSearchReturnsNothing ==
    [][\A h \in Handlers :
          (hpc[h] = "embed" /\ hpc'[h] # "embed" /\ hpc'[h] # "rlock") =>
              /\ Len(calls'[h]) = Len(calls[h]) + 1
              /\ LET c == calls'[h][Len(calls'[h])]
                 IN  c.err /\ c.results = <<>> /\ c.seen = <<>>
              /\ docs' = docs
              /\ mu' = mu
              /\ published' = published
              /\ h \notin mu'.readers]_vars

\* a Search of a non-blank query returned an error on a corpus with documents
C9_Witness ==
    \E c \in AllCalls : c.err /\ ~IsBlank(c.query) /\ Len(docs.arr) > 0

(***************************************************************************)
(* C10.  The results of a Search are in non-increasing order of score and  *)
(* are a top selection of the documents it read: the results followed by   *)
(* the documents left out, in some order, are all the scored documents,    *)
(* and no document left out scores more than a returned one.               *)
(***************************************************************************)
C10_SortedTopK ==
    \A c \in AllCalls :
        (~c.err /\ c.seen # <<>>) =>
            /\ NonIncreasing(c.results)
            /\ LET all == ScoreAll(c.q, c.vec, c.seen[1])
                   n   == Len(c.results)
               IN  \E p \in Orderings(all) :
                       /\ SubSeq(p, 1, n) = c.results
                       /\ \A i \in (n + 1)..Len(p) : \A j \in 1..n :
                              p[i].Score <= c.results[j].Score

\* a Search left out a document that scores strictly less than the one it
\* returned
C10_Witness ==
    \E c \in AllCalls :
        /\ ~c.err /\ c.seen # <<>>
        /\ Len(c.results) = 1
        /\ \E x \in Elements(ScoreAll(c.q, c.vec, c.seen[1])) :
               x.Score < c.results[1].Score

(***************************************************************************)
(* C4.  Merge max-wins: for every ID in the results of a variant search    *)
(* that succeeded, best holds an entry for that ID, the entry is one of    *)
(* the results returned for that ID, and no result returned for that ID    *)
(* has a greater score.                                                    *)
(***************************************************************************)
SuccessfulResults(h) == UNION {Elements(c.results) : c \in {x \in CallsOf(h) : ~x.err}}

C4_MergeMaxWins ==
    \A h \in Handlers :
        /\ DOMAIN best[h] = {x.Product.ID : x \in SuccessfulResults(h)}
        /\ \A x \in SuccessfulResults(h) :
              LET kept == best[h][x.Product.ID]
              IN  /\ kept \in SuccessfulResults(h)
                  /\ kept.Product.ID = x.Product.ID
                  /\ kept.Score >= x.Score

\* two variants returned the same ID with different scores, the greater one
\* neither last nor first in every case: here the earlier one is greater
C4_Witness ==
    \E h \in Handlers : \E i, j \in 1..Len(calls[h]) :
        /\ i < j
        /\ ~calls[h][i].err /\ ~calls[h][j].err
        /\ \E x \in Elements(calls[h][i].results), y \in Elements(calls[h][j].results) :
               x.Product.ID = y.Product.ID /\ x.Score > y.Score

(***************************************************************************)
(* C5.  A request that has answered has searched every variant, the        *)
(* primary then each alternative in order, whichever of them failed; its   *)
(* output holds only results returned by the variants that succeeded, one  *)
(* per ID, each with the greatest score returned for its ID, as many as    *)
(* the limit allows; if every variant failed the output is empty.          *)
(***************************************************************************)
C5_FailedVariantIsSkipped ==
    \A h \in Handlers :
        hpc[h] = "done" =>
            LET ids == {x.Product.ID : x \in SuccessfulResults(h)}
                n   == Cardinality(ids)
            IN  /\ Len(calls[h]) = 1 + Len(rw[h].Alternatives)
                /\ calls[h][1].query = rw[h].Primary
                /\ \A i \in 1..Len(rw[h].Alternatives) :
                       calls[h][i + 1].query = rw[h].Alternatives[i]
                /\ Elements(out[h]) \subseteq SuccessfulResults(h)
                /\ \A i, j \in 1..Len(out[h]) :
                       out[h][i].Product.ID = out[h][j].Product.ID => i = j
                /\ \A x \in Elements(out[h]) : \A y \in SuccessfulResults(h) :
                       y.Product.ID = x.Product.ID => y.Score <= x.Score
                /\ Len(out[h]) = IF topK[h] > 0 /\ topK[h] < n THEN topK[h] ELSE n
                /\ (\A c \in CallsOf(h) : c.err) => out[h] = <<>>

\* a variant failed, a later one succeeded, and the request answered with
\* the results of that one
C5_Witness ==
    \E h \in Handlers : \E i, j \in 1..Len(calls[h]) :
        /\ hpc[h] = "done"
        /\ i < j
        /\ calls[h][i].err /\ ~calls[h][j].err
        /\ out[h] # <<>>

(***************************************************************************)
(* C11.  The output of a request that has answered has at most one entry   *)
(* per product ID, is in non-increasing order of score, and has as many    *)
(* entries as there are distinct IDs in the results of the variants that   *)
(* succeeded, cut to the limit when the limit is positive and smaller.     *)
(***************************************************************************)
C11_MergedOutputShape ==
    \A h \in Handlers :
        hpc[h] = "done" =>
            LET n == Cardinality({x.Product.ID : x \in SuccessfulResults(h)})
            IN  /\ \A i, j \in 1..Len(out[h]) :
                       i < j => /\ out[h][i].Product.ID # out[h][j].Product.ID
                                /\ out[h][i].Score >= out[h][j].Score
                /\ topK[h] > 0 => Len(out[h]) <= topK[h]
                /\ Len(out[h]) = IF topK[h] > 0 /\ topK[h] < n THEN topK[h] ELSE n

\* two variants each returned both IDs (four results), and the output lists
\* each ID once, the greater score first
C11_Witness ==
    \E h \in Handlers :
        /\ hpc[h] = "done"
        /\ \E i, j \in 1..Len(calls[h]) :
               i < j /\ Len(calls[h][i].results) = 2 /\ Len(calls[h][j].results) = 2
        /\ Len(out[h]) = 2
        /\ out[h][1].Score > out[h][2].Score

(***************************************************************************)
(* C12.  Every result a Search returned, every entry of best and every     *)
(* entry of the output of a request has                                    *)
(*     Score = semanticWeight * Semantic + fuzzyWeight * Fuzzy             *)
(* and an entry of best or of the output is, whole, one of the results     *)
(* that a variant returned: its sub-scores are those of the variant its    *)
(* score comes from.                                                       *)
(***************************************************************************)
ScoreIsWeightedSum(x) == x.Score = semanticWeight * x.Semantic + fuzzyWeight * x.Fuzzy

C12_ScoreIsWeightedSum ==
    /\ \A c \in AllCalls : \A x \in Elements(c.results) : ScoreIsWeightedSum(x)
    /\ \A h \in Handlers :
          /\ \A x \in Elements(results[h]) : ScoreIsWeightedSum(x)
          /\ \A id \in DOMAIN best[h] :
                 ScoreIsWeightedSum(best[h][id]) /\ best[h][id] \in SuccessfulResults(h)
          /\ \A x \in Elements(out[h]) :
                 ScoreIsWeightedSum(x) /\ x \in SuccessfulResults(h)

\* the output holds for some ID the result of the variant that scored it
\* higher, while another variant returned the same ID with a lower score but
\* a greater fuzzy sub-score
C12_Witness ==
    \E h \in Handlers :
        /\ hpc[h] = "done"
        /\ \E x \in Elements(out[h]) : \E y \in SuccessfulResults(h) :
               /\ y.Product.ID = x.Product.ID
               /\ y.Score < x.Score
               /\ y.Fuzzy > x.Fuzzy
               /\ y.Semantic < x.Semantic

(***************************************************************************)
(* C13.  As claimed: for a query vector and a document vector that are     *)
(* non-empty, of equal length and both of non-zero magnitude, the semantic *)
(* sub-score of the document lies in [0, 1].                               *)
(***************************************************************************)
ZeroMagnitude(v) == \A i \in 1..Len(v) : v[i] = 0
WellFormedPair(a, b) ==
    Len(a) > 0 /\ Len(a) = Len(b) /\ ~ZeroMagnitude(a) /\ ~ZeroMagnitude(b)
NoNegative(v) == \A i \in 1..Len(v) : v[i] >= 0
\* the results of the call c for the document d (items have distinct IDs here)
ResultsFor(c, d) == {x \in Elements(c.results) : x.Product = d.P}

C13_SemanticInZeroOne ==
    \A c \in AllCalls : c.seen # <<>> =>
        \A d \in Elements(c.seen[1]) :
            WellFormedPair(c.vec, d.Embedding) =>
                \A x \in ResultsFor(c, d) : 0 <= x.Semantic /\ x.Semantic <= Scale

(***************************************************************************)
(* C13, amended.  For such a pair of vectors the semantic sub-score lies   *)
(* in [-1, 1]; it lies in [0, 1] when the dot product of the two vectors   *)
(* is not negative (so when no component of either is negative), and is    *)
(* negative when the dot product is.                                       *)
(***************************************************************************)
C13_SemanticInMinusOneOne ==
    \A c \in AllCalls : c.seen # <<>> =>
        \A d \in Elements(c.seen[1]) :
            WellFormedPair(c.vec, d.Embedding) =>
                \A x \in ResultsFor(c, d) :
                    /\ -Scale <= x.Semantic /\ x.Semantic <= Scale
                    /\ Dot(c.vec, d.Embedding) >= 0 => x.Semantic >= 0
                    /\ Dot(c.vec, d.Embedding) < 0 => x.Semantic < 0
                    /\ (NoNegative(c.vec) /\ NoNegative(d.Embedding)) => x.Semantic >= 0

\* a Search returned one document with a negative semantic sub-score and
\* another with one strictly between 0 and 1
C13_Witness ==
    \E c \in AllCalls : c.seen # <<>> /\
        \E d, e \in Elements(c.seen[1]) :
            /\ WellFormedPair(c.vec, d.Embedding) /\ WellFormedPair(c.vec, e.Embedding)
            /\ \E x \in ResultsFor(c, d) : x.Semantic < 0
            /\ \E y \in ResultsFor(c, e) : 0 < y.Semantic /\ y.Semantic < Scale

(***************************************************************************)
(* C14.  When the query vector or the document vector is empty, or they    *)
(* differ in length, or either has zero magnitude, the document's semantic *)
(* sub-score is 0 and its score is the fuzzy term alone; the Search does   *)
(* not fail for it (a Search that fails has read no document) and returns  *)
(* the document, unless the limit cuts it off.                             *)
(***************************************************************************)
Degenerate(a, b) ==
    Len(a) = 0 \/ Len(b) = 0 \/ Len(a) # Len(b) \/ ZeroMagnitude(a) \/ ZeroMagnitude(b)

C14_DegenerateVectorsScoreZero ==
    \A c \in AllCalls :
        /\ c.err => c.seen = <<>>
        /\ c.seen # <<>> =>
              /\ ~c.err
              /\ \A d \in Elements(c.seen[1]) :
                     Degenerate(c.vec, d.Embedding) =>
                         /\ \A x \in ResultsFor(c, d) :
                                x.Semantic = 0 /\ x.Score = fuzzyWeight * x.Fuzzy
                         /\ (c.k <= 0 \/ c.k >= Len(c.seen[1])) => ResultsFor(c, d) # {}

\* a Search returned, with a positive score, a document whose vector is not
\* of the length of the query vector, neither being empty; and another
\* whose vector has zero magnitude
C14_Witness ==
    \E c \in AllCalls : c.seen # <<>> /\
        \E d, e \in Elements(c.seen[1]) :
            /\ Len(c.vec) > 0 /\ Len(d.Embedding) > 0 /\ Len(c.vec) # Len(d.Embedding)
            /\ \E x \in ResultsFor(c, d) : x.Score > 0
            /\ Len(e.Embedding) = Len(c.vec) /\ ZeroMagnitude(e.Embedding)
            /\ ResultsFor(c, e) # {}

(***************************************************************************)
(* C15.  As claimed: with the four-item catalog, weights 0.70 and 0.30,    *)
(* the query "iphone 14" and the alternative "apple iphone", the output    *)
(* of the request lists "Apple iPhone 14 Pro" (ID 1) first, whatever       *)
(* vectors the provider answered for the documents and the queries.        *)
(***************************************************************************)
C15_AppleRanksFirst ==
    \A h \in Handlers :
        (hpc[h] = "done" /\ out[h] # <<>>) => out[h][1].Product.ID = iPhone.ID

(***************************************************************************)
(* C15, amended.  For both variants the fuzzy sub-score of "Apple iPhone   *)
(* 14 Pro" is strictly the greatest of the four.  The output lists it      *)
(* first, with a score strictly greater than every other entry's, when in  *)
(* each variant search that succeeded no other item has a greater          *)
(* semantic sub-score than it has.                                         *)
(***************************************************************************)
\* in the call c, no item has a greater semantic sub-score than the item id
\* and the documents of a call with their scores, before the truncation
Scored(c) == Elements(ScoreAll(c.q, c.vec, c.seen[1]))
SemanticAtLeastOthers(c, id) ==
    c.seen # <<>> => \A x, y \in Scored(c) : x.Product.ID = id => y.Semantic <= x.Semantic

C15_AppleRanksFirstOnFuzzy ==
    \A h \in Handlers :
        /\ \A c \in CallsOf(h) : c.seen # <<>> => \A x, y \in Scored(c) :
               (x.Product.ID = iPhone.ID /\ y.Product.ID # iPhone.ID) => x.Fuzzy > y.Fuzzy
        /\ ( /\ hpc[h] = "done"
             /\ out[h] # <<>>
             /\ \A c \in CallsOf(h) : SemanticAtLeastOthers(c, iPhone.ID) )
           => /\ out[h][1].Product.ID = iPhone.ID
              /\ \A i \in 2..Len(out[h]) : out[h][i].Score < out[h][1].Score

\* both variants succeeded on documents whose semantic sub-scores differ,
\* none above that of "Apple iPhone 14 Pro", which the output of four
\* entries lists first
C15_Witness ==
    \E h \in Handlers :
        /\ hpc[h] = "done"
        /\ Len(calls[h]) = 2
        /\ \A c \in CallsOf(h) :
               /\ ~c.err
               /\ SemanticAtLeastOthers(c, iPhone.ID)
               /\ \E x, y \in Elements(c.results) : x.Semantic # y.Semantic
        /\ Len(out[h]) = 4
        /\ out[h][1].Product.ID = iPhone.ID

(***************************************************************************)
(* C16.  As claimed: the Rewrite that RewriteQuery returned without error  *)
(* has a non-empty primary and at most 3 alternatives, none of them blank, *)
(* and the primary and the alternatives are pairwise distinct when         *)
(* compared without regard to case.                                        *)
(***************************************************************************)
C16_RewriteIsNormalized ==
    \A h \in Handlers :
        (hpc[h] # "idle" /\ ~rwerr[h]) =>
            LET alts == rw[h].Alternatives
            IN  /\ rw[h].Primary # <<>>
                /\ Len(alts) <= MaxAlternatives
                /\ \A i \in 1..Len(alts) :
                       /\ ~IsBlank(alts[i])
                       /\ ToLower(alts[i]) # ToLower(rw[h].Primary)
                /\ \A i, j \in 1..Len(alts) :
                       i < j => ToLower(alts[i]) # ToLower(alts[j])

(***************************************************************************)
(* C17.  As claimed: when two Rebuild calls overlap in time and both       *)
(* succeed, the corpus in place after both have returned is the one built  *)
(* by the call that started later.                                         *)
(***************************************************************************)
\* the call a was in progress when the call b was made
StartedDuring(a, b) == a # b /\ a \in before[b].running

C17_LaterStartedWins ==
    \A a, b \in Rebuilders :
        (StartedDuring(a, b) /\ RebuildSucceeded(a) /\ RebuildSucceeded(b)) =>
            docs = [arr |-> rdocs[b], len |-> Len(rdocs[b])]

(***************************************************************************)
(* C17, amended.  The stores of Rebuild calls are serialized, not the      *)
(* calls: at most one Rebuild is between Lock and Unlock, and it holds the *)
(* lock.  When two Rebuild calls overlap in time and both succeed, each    *)
(* has stored its own corpus once, and the corpus in place after both      *)
(* have returned is the one built by the call that stored last, whichever  *)
(* started first.                                                          *)
(***************************************************************************)
Storing == {r \in Rebuilders : rpc[r] \in {"store", "storelen", "unlock"}}
StoresOf(r) == {i \in 1..Len(published) : published[i].by = r}

C17_LastStoreWins ==
    /\ Cardinality(Storing) <= 1
    /\ \A r \in Storing : mu.w = r /\ mu.held
    /\ \A a, b \in Rebuilders :
          (StartedDuring(a, b) /\ RebuildSucceeded(a) /\ RebuildSucceeded(b)) =>
              LET last == published[Len(published)].by
              IN  /\ Cardinality(StoresOf(a)) = 1 /\ Cardinality(StoresOf(b)) = 1
                  /\ last \in {a, b}
                  /\ docs = [arr |-> rdocs[last], len |-> Len(rdocs[last])]

\* two overlapping Rebuild calls have succeeded, and the corpus in place is
\* that of the one that started first, which is not the other's
C17_Witness ==
    \E a, b \in Rebuilders :
        /\ StartedDuring(a, b) /\ RebuildSucceeded(a) /\ RebuildSucceeded(b)
        /\ published[Len(published)].by = a
        /\ docs.arr = rdocs[a]
        /\ Len(rdocs[a]) # Len(rdocs[b])

(***************************************************************************)
(* C18.  Corpus integrity.  ix.docs is the corpus stored last, whole,      *)
(* except while a Rebuild is in the middle of its store, holding the lock  *)
(* with no reader.  Every corpus stored is the list of documents of one    *)
(* Rebuild call that fails no more (that of main at startup, or a later    *)
(* one): one document per item of its input with a non-blank field, in     *)
(* the order of the input, each with the search text of its item and the   *)
(* vector the provider answered for that text.                             *)
(***************************************************************************)
\* the items of ps that have a non-blank field, in order
RECURSIVE Surviving(_)
Surviving(ps) ==
    IF ps = <<>> THEN <<>>
    ELSE IF AllBlank(Head(ps)) THEN Surviving(Tail(ps))
    ELSE <<Head(ps)>> \o Surviving(Tail(ps))

\* the corpus c has the documents of the items ps
DocumentsOf(c, ps) ==
    LET items == Surviving(ps)
    IN  /\ Len(c) = Len(items)
        /\ \A j \in 1..Len(c) :
               /\ c[j].P = items[j]
               /\ c[j].SearchText # <<>>
               /\ c[j].SearchText = SearchText(items[j])

C18_CorpusIsOneWholeBuild ==
    /\ \A r \in Rebuilders :
          rpc[r] = "storelen" => mu.w = r /\ mu.held /\ mu.readers = {}
    /\ (\A r \in Rebuilders : rpc[r] # "storelen") =>
          docs = [arr |-> LastPublished, len |-> Len(LastPublished)]
    /\ \A i \in 1..Len(published) :
          LET by == published[i].by
              c  == published[i].corpus
          IN  IF by = "main" THEN i = 1 /\ DocumentsOf(c, initial)
              ELSE /\ rpc[by] \in {"unlock", "done"}
                   /\ rerr[by] = <<>>
                   /\ c = rdocs[by]
                   /\ DocumentsOf(c, products[by])
                   /\ Len(before[by].answers) = Len(c)
                   /\ \A j \in 1..Len(c) :
                          /\ before[by].answers[j].text = c[j].SearchText
                          /\ before[by].answers[j].vec = c[j].Embedding

\* a Rebuild failed after it had built a document, while an overlapping
\* Rebuild of three items, one of them blank, succeeded: its two documents
\* are the corpus
C18_Witness ==
    \E a, b \in Rebuilders :
        /\ StartedDuring(a, b) \/ StartedDuring(b, a)
        /\ RebuildFailed(a) /\ Len(rdocs[a]) > 0
        /\ RebuildSucceeded(b) /\ Len(products[b]) = 3 /\ Len(rdocs[b]) = 2
        /\ rdocs[b][1].Embedding # rdocs[b][2].Embedding
        /\ docs = [arr |-> rdocs[b], len |-> 2]

(***************************************************************************)
(* C19.  As claimed: when every variant of a request that has answered     *)
(* with a positive limit k was searched on the same corpus, the scores of  *)
(* the output, in order, are the k greatest of the per-ID maxima of the    *)
(* scores of all documents over the variants that succeeded, not           *)
(* truncated.                                                              *)
(***************************************************************************)
\* the scored documents of a call before its truncation
Untruncated(c) == IF c.err \/ c.seen = <<>> THEN {} ELSE Scored(c)
AllUntruncated(h) == UNION {Untruncated(c) : c \in CallsOf(h)}
\* a request whose variants were all searched on one corpus
FixedCorpus(h) == \A c, e \in CallsOf(h) : (c.seen # <<>> /\ e.seen # <<>>) => c.seen = e.seen
\* the greatest score of each ID, one pair per ID
MaxPerID(S) ==
    {<<id, m>> \in {<<x.Product.ID, x.Score>> : x \in S} :
        \A y \in S : y.Product.ID = id => y.Score <= m}
\* the n greatest values (or all, if fewer) of a set of pairs <<id, value>>,
\* in non-increasing order
Greatest(M, n) ==
    LET size == Cardinality(M)
        f == CHOOSE g \in [1..size -> M] :
                 /\ \A i, j \in 1..size : i < j => g[i] # g[j] /\ g[i][2] >= g[j][2]
    IN  [i \in 1..(IF n < size THEN n ELSE size) |-> f[i][2]]
Scores(list) == [i \in 1..Len(list) |-> list[i].Score]

C19_TruncationIsHarmless ==
    \A h \in Handlers :
        (hpc[h] = "done" /\ topK[h] > 0 /\ FixedCorpus(h)) =>
            Scores(out[h]) = Greatest(MaxPerID(AllUntruncated(h)), topK[h])

(***************************************************************************)
(* C19, amended.  The same, for a corpus whose documents have pairwise     *)
(* distinct IDs.                                                           *)
(***************************************************************************)
DistinctIDs(ds) == \A i, j \in 1..Len(ds) : ds[i].P.ID = ds[j].P.ID => i = j

C19_TruncationIsHarmlessDistinctIDs ==
    \A h \in Handlers :
        ( /\ hpc[h] = "done" /\ topK[h] > 0 /\ FixedCorpus(h)
          /\ \A c \in CallsOf(h) : c.seen # <<>> => DistinctIDs(c.seen[1]) ) =>
            Scores(out[h]) = Greatest(MaxPerID(AllUntruncated(h)), topK[h])

\* two variants were searched on one corpus of three documents with three
\* IDs, each was truncated, they returned different IDs, and the merged
\* entries were truncated again
C19_Witness ==
    \E h \in Handlers :
        /\ hpc[h] = "done" /\ topK[h] > 0 /\ FixedCorpus(h)
        /\ Len(calls[h]) = 2
        /\ \A c \in CallsOf(h) :
               /\ ~c.err /\ c.seen # <<>> /\ DistinctIDs(c.seen[1])
               /\ Len(c.seen[1]) = 3
               /\ Len(c.results) < 3
        /\ Cardinality(DOMAIN best[h]) > topK[h]
        /\ Len(out[h]) = topK[h]

(***************************************************************************)
(* C20.  Progress and lock release.  Under fair scheduling, with every     *)
(* embedding request answered, every Rebuild call and every request's      *)
(* Search calls return; and whenever no call is in progress the lock has   *)
(* no writer and no reader.                                                *)
(***************************************************************************)
RebuildInProgress(r) == rpc[r] \notin {"idle", "done"}
SearchInProgress(h) == hpc[h] \notin {"idle", "done"}
Quiet == (\A r \in Rebuilders : ~RebuildInProgress(r)) /\ (\A h \in Handlers : ~SearchInProgress(h))

C20_EveryCallReturns ==
    /\ \A r \in Rebuilders : RebuildInProgress(r) ~> (rpc[r] = "done")
    /\ \A h \in Handlers : SearchInProgress(h) ~> (hpc[h] = "done")
    /\ [](Quiet => mu = [w |-> None, held |-> FALSE, readers |-> {}])

\* a Rebuild waits in Lock for a Search that holds the read lock, while
\* another Search waits in RLock behind the Rebuild
C20_Witness ==
    \E r \in Rebuilders, h, g \in Handlers :
        /\ rpc[r] = "wait" /\ mu.w = r /\ ~mu.held
        /\ h \in mu.readers
        /\ hpc[g] = "rlock"

=============================================================================
